---- MODULE Spec2Model ----
(***************************************************************************)
(* docs/MCsend.py: a script that opens a UDP socket, sets the IP multicast *)
(* TTL and sends one fixed payload to a multicast group.                   *)
(*                                                                         *)
(* The script is three statements (lines 14, 15, 19).  Each is a call into *)
(* the operating system that either returns or raises; an exception that   *)
(* nothing catches ends the interpreter with a traceback and status 1.     *)
(* The model runs the script up to MaxRuns times, one process after the    *)
(* other, against one network on which the emitted datagrams accumulate.   *)
(***************************************************************************)
EXTENDS Integers, Sequences, FiniteSets, TLC

(***************************************************************************)
(* Bounds of the model.                                                    *)
(***************************************************************************)
\* how many times the script is invoked
MaxRuns == 3
\* how many local (source) ports the system may pick from at the first send
MaxPorts == 2

(***************************************************************************)
(* The script's constants.  A Python string is a sequence of characters.   *)
(***************************************************************************)
\* variant: the group address mistyped
MCAST_GRP_typo == <<"2", "3", "9", ".", "2", "5", "5", ".", "1", "1", ".", "1">>

\* line 5: MCAST_GRP = '239.255.1.1'
MCAST_GRP == <<"2", "3", "9", ".", "2", "5", "5", ".", "1", ".", "1">>

\* line 6: MCAST_PORT = 49788
MCAST_PORT == 49788

\* line 12: MULTICAST_TTL = 2
MULTICAST_TTL == 2

\* variant: the literal with a line end, b"robot\n"
ROBOT_newline == <<"r", "o", "b", "o", "t", "\n">>

\* line 19: the literal b"robot"
ROBOT == <<"r", "o", "b", "o", "t">>

(***************************************************************************)
(* Conversions the socket module performs on the arguments of sendto.      *)
(***************************************************************************)
\* value of a decimal digit
DigitVal(c) ==
    CASE c = "0" -> 0 [] c = "1" -> 1 [] c = "2" -> 2 [] c = "3" -> 3
      [] c = "4" -> 4 [] c = "5" -> 5 [] c = "6" -> 6 [] c = "7" -> 7
      [] c = "8" -> 8 [] c = "9" -> 9

\* dotted-quad text to the octets of the address, in network order
RECURSIVE aton(_, _, _)
aton(s, acc, cur) ==
    IF s = <<>> THEN Append(acc, cur)
    ELSE IF Head(s) = "." THEN aton(Tail(s), Append(acc, cur), 0)
    ELSE aton(Tail(s), acc, cur * 10 + DigitVal(Head(s)))

inet_aton(s) == aton(s, <<>>, 0)

\* a 16-bit port to its two octets in network order
htons(p) == <<(p \div 256) % 256, p % 256>>

\* the byte a character of a bytes literal stands for (ASCII)
ord(c) ==
    CASE c = "r" -> 114 [] c = "o" -> 111 [] c = "b" -> 98 [] c = "t" -> 116
      [] c = "\n" -> 10

\* a bytes literal to its bytes
bytes(s) == [i \in DOMAIN s |-> ord(s[i])]

(***************************************************************************)
(* The environment: what each call can raise, and the local ports.         *)
(***************************************************************************)
OSError(e) == [type |-> "OSError", arg |-> e]

\* socket.socket(AF_INET, SOCK_DGRAM, IPPROTO_UDP)
SocketErrors == {OSError("EMFILE"), OSError("EAFNOSUPPORT")}

\* sock.setsockopt(IPPROTO_IP, IP_MULTICAST_TTL, 2); a platform whose socket
\* module has no IP_MULTICAST_TTL raises AttributeError on the same line
SetsockoptErrors ==
    {OSError("ENOPROTOOPT"), OSError("EINVAL"),
     [type |-> "AttributeError", arg |-> "IP_MULTICAST_TTL"]}

\* sock.sendto(b"robot", (MCAST_GRP, MCAST_PORT))
SendtoErrors == {OSError("ENETUNREACH"), OSError("EPERM")}

\* the local port an unbound UDP socket gets at its first send
EphemeralPorts == 32768 .. (32768 + MaxPorts - 1)

VARIABLES
    run,       \* number of the current invocation of the script
    pc,        \* where the current process is: "L14", "L15", "L19", "raise",
               \* "end" (fell off the end of the script), "exited"
    sock,      \* the socket object of line 14
    exc,       \* the exception in flight, NoExc when none
    exitcode,  \* the process's exit status, -1 while it runs
    stderr,    \* what the process wrote to standard error
    wire,      \* the datagrams emitted on the network, all runs
    nsent,     \* datagrams the current process emitted
    calls      \* the system calls the current process attempted, in order

vars == <<run, pc, sock, exc, exitcode, stderr, wire, nsent, calls>>

NoErr == [type |-> "", arg |-> ""]
NoExc == [line |-> 0, type |-> "", arg |-> ""]
NoSock == [state |-> "none", ttl |-> 0, mcast_ttl |-> 0]
NoOutput == <<>>

\* exception e raised by the statement at the given line of the script
Raise(e, line) == [line |-> line, type |-> e.type, arg |-> e.arg]

\* a fresh process at the first statement of the script
Start ==
    /\ pc = "L14"
    /\ sock = NoSock
    /\ exc = NoExc
    /\ exitcode = -1
    /\ stderr = NoOutput
    /\ nsent = 0
    /\ calls = <<>>

Init ==
    /\ run = 1
    /\ wire = <<>>
    /\ Start

\* the record of one attempted call: its name, whether it returned, what it
\* raised, and the socket it was made on as it was when the call was made
Call(name, ok, e) ==
    [call |-> name, ok |-> ok, err |-> e,
     on |-> sock.state, mcast_ttl |-> sock.mcast_ttl]

(***************************************************************************)
(* Line 14: sock = socket.socket(AF_INET, SOCK_DGRAM, IPPROTO_UDP)         *)
(***************************************************************************)
\* a new IPv4 socket: unicast TTL 64, multicast TTL 1 (the system defaults)
socket_ok ==
    /\ pc = "L14"
    /\ sock' = [state |-> "open", ttl |-> 64, mcast_ttl |-> 1]
    /\ calls' = Append(calls, Call("socket", TRUE, NoErr))
    /\ pc' = "L15"
    /\ UNCHANGED <<run, exc, exitcode, stderr, wire, nsent>>

\* variant: the failure of socket() is caught and the script goes on
socket_fail_ignored(e) ==
    /\ pc = "L14"
    /\ calls' = Append(calls, Call("socket", FALSE, e))
    /\ pc' = "L15"
    /\ UNCHANGED <<run, sock, exc, exitcode, stderr, wire, nsent>>

socket_fail(e) ==
    /\ pc = "L14"
    /\ calls' = Append(calls, Call("socket", FALSE, e))
    /\ exc' = Raise(e, 14)
    /\ pc' = "raise"
    /\ UNCHANGED <<run, sock, exitcode, stderr, wire, nsent>>

(***************************************************************************)
(* Line 15: sock.setsockopt(IPPROTO_IP, IP_MULTICAST_TTL, MULTICAST_TTL)   *)
(***************************************************************************)
\* variant: the unicast option IP_TTL is set instead of IP_MULTICAST_TTL
setsockopt_unicast_ttl ==
    /\ pc = "L15"
    /\ sock' = [sock EXCEPT !.ttl = MULTICAST_TTL]
    /\ calls' = Append(calls, Call("setsockopt", TRUE, NoErr))
    /\ pc' = "L19"
    /\ UNCHANGED <<run, exc, exitcode, stderr, wire, nsent>>

\* variant: the socket is closed right after the option is set
setsockopt_then_close ==
    /\ pc = "L15"
    /\ sock' = [sock EXCEPT !.mcast_ttl = MULTICAST_TTL, !.state = "closed"]
    /\ calls' = Append(calls, Call("setsockopt", TRUE, NoErr))
    /\ pc' = "L19"
    /\ UNCHANGED <<run, exc, exitcode, stderr, wire, nsent>>

setsockopt_ok ==
    /\ pc = "L15"
    /\ sock' = [sock EXCEPT !.mcast_ttl = MULTICAST_TTL]
    /\ calls' = Append(calls, Call("setsockopt", TRUE, NoErr))
    /\ pc' = "L19"
    /\ UNCHANGED <<run, exc, exitcode, stderr, wire, nsent>>

\* variant: the failure of setsockopt() is caught and the script goes on
setsockopt_fail_ignored(e) ==
    /\ pc = "L15"
    /\ calls' = Append(calls, Call("setsockopt", FALSE, e))
    /\ pc' = "L19"
    /\ UNCHANGED <<run, sock, exc, exitcode, stderr, wire, nsent>>

setsockopt_fail(e) ==
    /\ pc = "L15"
    /\ calls' = Append(calls, Call("setsockopt", FALSE, e))
    /\ exc' = Raise(e, 15)
    /\ pc' = "raise"
    /\ UNCHANGED <<run, sock, exitcode, stderr, wire, nsent>>

(***************************************************************************)
(* Line 19: sock.sendto(b"robot", (MCAST_GRP, MCAST_PORT))                 *)
(***************************************************************************)
\* variant: the payload carries the number of the invocation
Payload_numbered == Append(bytes(ROBOT), run)

\* the bytes handed to sendto
Payload == bytes(ROBOT)

\* the datagram a send on the socket puts on the network, from local port p
Datagram(p) ==
    [sport |-> p,
     daddr |-> inet_aton(MCAST_GRP),
     dport |-> htons(MCAST_PORT),
     ttl   |-> sock.mcast_ttl,
     data  |-> Payload]

\* variant: the datagram is sent twice
sendto_twice ==
    /\ pc = "L19"
    /\ sock.state = "open"
    /\ \E p \in EphemeralPorts :
          wire' = Append(Append(wire, Datagram(p)), Datagram(p))
    /\ nsent' = nsent + 2
    /\ calls' = Append(Append(calls, Call("sendto", TRUE, NoErr)),
                       Call("sendto", TRUE, NoErr))
    /\ pc' = "end"
    /\ UNCHANGED <<run, sock, exc, exitcode, stderr>>

sendto_ok ==
    /\ pc = "L19"
    /\ sock.state = "open"
    /\ \E p \in EphemeralPorts : wire' = Append(wire, Datagram(p))
    /\ nsent' = nsent + 1
    /\ calls' = Append(calls, Call("sendto", TRUE, NoErr))
    /\ pc' = "end"
    /\ UNCHANGED <<run, sock, exc, exitcode, stderr>>

\* variant: a failed send is caught and tried again
sendto_fail_retry(e) ==
    /\ pc = "L19"
    /\ exc' = Raise(e, 19)
    /\ pc' = "L19"
    /\ UNCHANGED <<run, sock, exitcode, stderr, wire, nsent, calls>>

sendto_fail(e) ==
    /\ pc = "L19"
    /\ calls' = Append(calls, Call("sendto", FALSE, e))
    /\ exc' = Raise(e, 19)
    /\ pc' = "raise"
    /\ UNCHANGED <<run, sock, exitcode, stderr, wire, nsent>>

(***************************************************************************)
(* The end of the script: nothing catches an exception and nothing follows *)
(* line 19, so the interpreter exits.  An exception in flight is printed   *)
(* as a traceback and the status is 1, else the status is 0.  The process's*)
(* descriptors, the socket among them, are closed as it exits.             *)
(***************************************************************************)
\* variant: the exception is swallowed at the top level
ExitStatus_swallowed == IF exc = NoExc THEN 0 ELSE 0

ExitStatus == IF exc = NoExc THEN 0 ELSE 1

\* the traceback names the failing line and ends with the exception
Traceback ==
    IF exc = NoExc THEN stderr
    ELSE Append(stderr, [line |-> exc.line, type |-> exc.type, arg |-> exc.arg])

Release(s) == IF s.state = "open" THEN [s EXCEPT !.state = "closed"] ELSE s

Exit ==
    /\ pc \in {"raise", "end"}
    /\ exitcode' = ExitStatus
    /\ stderr' = Traceback
    /\ sock' = Release(sock)
    /\ pc' = "exited"
    /\ UNCHANGED <<run, exc, wire, nsent, calls>>

(***************************************************************************)
(* The script is invoked again: a new process, the same network.           *)
(***************************************************************************)
Invoke ==
    /\ pc = "exited"
    /\ run < MaxRuns
    /\ run' = run + 1
    /\ pc' = "L14"
    /\ sock' = NoSock
    /\ exc' = NoExc
    /\ exitcode' = -1
    /\ stderr' = NoOutput
    /\ nsent' = 0
    /\ calls' = <<>>
    /\ UNCHANGED wire

\* the steps of the running process
Step ==
    \/ socket_ok
    \/ \E e \in SocketErrors : socket_fail(e)
    \/ setsockopt_ok
    \/ \E e \in SetsockoptErrors : setsockopt_fail(e)
    \/ sendto_ok
    \/ \E e \in SendtoErrors : sendto_fail(e)
    \/ Exit

Next == Step \/ Invoke

Spec == Init /\ [][Next]_vars

\* The process is the only thread and none of its calls waits for anything:
\* a step that can be taken is taken.  Nothing obliges anyone to invoke the
\* script again.
FairSpec == Spec /\ WF_vars(Step)

(***************************************************************************)
(* What the properties below read off the state.                           *)
(***************************************************************************)
\* the positions in calls of the attempts of the named call
Attempts(name) == {i \in DOMAIN calls : calls[i].call = name}

\* the named call was made and returned
Succeeded(name) == \E i \in Attempts(name) : calls[i].ok

\* the positions in calls of the calls that raised
Failures == {i \in DOMAIN calls : ~calls[i].ok}

\* two octets in network order to the 16-bit number
ntohs(b) == b[1] * 256 + b[2]

\* the byte written as two hexadecimal digits
Hex(hi, lo) == hi * 16 + lo

\* what each call can raise
ErrorsOf(name) ==
    CASE name = "socket" -> SocketErrors
      [] name = "setsockopt" -> SetsockoptErrors
      [] name = "sendto" -> SendtoErrors

\* the order of the calls in the script
Order == <<"socket", "setsockopt", "sendto">>

(***************************************************************************)
(* C1: a run in which socket(), setsockopt() and sendto() all return emits *)
(* exactly one datagram, and no run, failing or not, emits more than one.  *)
(***************************************************************************)
C1_OneDatagram ==
    /\ nsent <= 1
    /\ Len(wire) <= run
    /\ (Succeeded("socket") /\ Succeeded("setsockopt") /\ Succeeded("sendto"))
          => nsent = 1
    /\ (pc = "exited" /\ exitcode = 0) => nsent = 1

C1_Witness == pc = "exited" /\ exitcode = 0 /\ nsent = 1 /\ Len(calls) = 3

(***************************************************************************)
(* C2: every datagram on the network goes to 239.255.1.1, port 49788.      *)
(***************************************************************************)
C2_Destination ==
    \A i \in DOMAIN wire :
        /\ wire[i].daddr = <<239, 255, 1, 1>>
        /\ Len(wire[i].dport) = 2
        /\ ntohs(wire[i].dport) = 49788

C2_Witness == pc = "end" /\ Len(wire) = 1 /\ wire[1].daddr[1] = 239

(***************************************************************************)
(* C3: every datagram's payload is the five bytes 72 6F 62 6F 74 and       *)
(* nothing else.                                                           *)
(***************************************************************************)
C3_Payload ==
    \A i \in DOMAIN wire :
        wire[i].data = <<Hex(7, 2), Hex(6, 15), Hex(6, 2), Hex(6, 15), Hex(7, 4)>>

C3_Witness == pc = "end" /\ wire # <<>> /\ Len(wire[Len(wire)].data) = 5

(***************************************************************************)
(* C4: when sendto() is called the socket's multicast TTL is 2: the option *)
(* was set to 2 on the socket by an earlier setsockopt() that returned,    *)
(* no call lies between that one and the send, and the datagram leaves     *)
(* with that TTL.                                                          *)
(***************************************************************************)
C4_TtlAtSend ==
    /\ pc = "L19" => (sock.state = "open" /\ sock.mcast_ttl = 2)
    /\ \A i \in Attempts("sendto") :
          /\ calls[i].mcast_ttl = 2
          /\ i > 1
          /\ calls[i - 1].call = "setsockopt"
          /\ calls[i - 1].ok
          /\ calls[i - 1].on = calls[i].on
    /\ \A i \in DOMAIN wire : wire[i].ttl = 2

C4_Witness ==
    /\ Succeeded("sendto")
    /\ calls[Len(calls)].mcast_ttl = 2
    /\ calls[2].mcast_ttl = 1

(***************************************************************************)
(* C5: when setsockopt() fails the process emits no datagram, never calls  *)
(* sendto(), and exits with a status other than zero.                      *)
(***************************************************************************)
C5_NoSendAfterFailedOption ==
    (\E i \in Attempts("setsockopt") : ~calls[i].ok) =>
        /\ nsent = 0
        /\ Attempts("sendto") = {}
        /\ pc \in {"raise", "exited"}
        /\ pc = "exited" => exitcode > 0

C5_Witness ==
    /\ pc = "exited"
    /\ Len(calls) = 2
    /\ calls[2].err = OSError("ENOPROTOOPT")
    /\ exitcode = 1

(***************************************************************************)
(* C6: a failure of socket(), setsockopt() or sendto() ends the process    *)
(* with a status other than zero and a message on standard error naming    *)
(* the error the call raised; the call is not made again, no call follows  *)
(* it, and the status is never zero.                                       *)
(***************************************************************************)
C6_FailureIsFatal ==
    \A i \in Failures :
        /\ calls[i].err \in ErrorsOf(calls[i].call)
        /\ i = Len(calls)
        /\ Cardinality(Attempts(calls[i].call)) = 1
        /\ pc \in {"raise", "exited"}
        /\ nsent = 0
        /\ pc = "exited" =>
              /\ exitcode > 0
              /\ Len(stderr) = 1
              /\ stderr[1].type = calls[i].err.type
              /\ stderr[1].arg = calls[i].err.arg

C6_Witness ==
    /\ pc = "exited"
    /\ Len(calls) = 3
    /\ ~calls[3].ok
    /\ stderr = <<[line |-> 19, type |-> "OSError", arg |-> "ENETUNREACH"]>>

(***************************************************************************)
(* C7: any two datagrams the script emitted, in whichever runs, have the   *)
(* same destination address, destination port, TTL and payload.            *)
(***************************************************************************)
C7_SamePacketEveryRun ==
    \A i, j \in DOMAIN wire :
        /\ wire[i].daddr = wire[j].daddr
        /\ wire[i].dport = wire[j].dport
        /\ wire[i].ttl = wire[j].ttl
        /\ wire[i].data = wire[j].data

C7_Witness ==
    /\ run = 3
    /\ Len(wire) = 2
    /\ wire[1].sport # wire[2].sport

(***************************************************************************)
(* C8: the socket is created by the call right before its first use, is    *)
(* sent on exactly once in a run that succeeds, is open whenever it is     *)
(* used, and is no longer open once the process has exited.                *)
(***************************************************************************)
C8_SocketLifecycle ==
    /\ \A i \in DOMAIN calls :
          calls[i].call # "socket" =>
              /\ calls[i].on = "open"
              /\ calls[1].call = "socket" /\ calls[1].ok
    /\ Len(calls) >= 2 => calls[2].call # "socket"
    /\ (pc = "exited" /\ exitcode = 0) => Cardinality(Attempts("sendto")) = 1
    /\ pc = "exited" => sock.state # "open"
    /\ sock.state = "closed" => pc = "exited"

C8_Witness ==
    /\ pc = "exited"
    /\ exitcode = 0
    /\ sock.state = "closed"
    /\ calls[3].on = "open"

(***************************************************************************)
(* C9: every run ends: a running process eventually has exited, with       *)
(* status zero exactly when its send returned.                             *)
(***************************************************************************)
C9_Terminates ==
    (pc # "exited") ~>
        (/\ pc = "exited"
         /\ exitcode \in {0, 1}
         /\ exitcode = 0 <=> Succeeded("sendto"))

C9_Witness == pc = "exited" /\ run = 2 /\ exitcode = 1 /\ Len(calls) = 1

(***************************************************************************)
(* C10: the calls are made in the order socket(), setsockopt(), sendto(),  *)
(* each at most once, and a call is made only when every call before it    *)
(* returned.                                                               *)
(***************************************************************************)
C10_CallOrder ==
    /\ Len(calls) <= Len(Order)
    /\ \A i \in DOMAIN calls :
          /\ calls[i].call = Order[i]
          /\ i < Len(calls) => calls[i].ok

C10_Witness ==
    /\ Len(calls) = 2
    /\ ~calls[2].ok
    /\ pc = "raise"

====
